---------------------------- MODULE Spec2Model ----------------------------
(***************************************************************************)
(* The score-to-attestation script of src/src/getNullifiers.ts             *)
(* (lines 169-505): parseDecimal, createAttestationData, encodeScoreData,  *)
(* writeScoreOnchain and processAddresses; the nullifier analysis of the   *)
(* same file (lines 1-168): main; and the zero-score scanner of            *)
(* src/unnamed/part_002: getZeroScoreAddresses.  Each program has its own  *)
(* variables and its own specification; while one runs the others idle.    *)
(*                                                                         *)
(* A JavaScript string that holds a decimal is a sequence of one-character *)
(* strings, so that the regular expressions of the code are computed on    *)
(* its characters.  A bigint is a record [neg, digits]: a sign and the     *)
(* decimal digits without leading zeros (zero is <<>>), because the        *)
(* uint32 limit of the payload does not fit the model checker's integers.  *)
(* Other strings (addresses, messages, hashes) are atoms.                  *)
(***************************************************************************)
EXTENDS Integers, Sequences, FiniteSets, TLC

\* ------------------------------------------------------------- bounds
MaxAddrs == 6

MaxStamps == 3

\* The longest run of fraction digits parseDecimal is called with.
MaxFrac == 6

\* The most ids of an input file of the nullifier analysis.
MaxIds == 3

\* The rows of the table the nullifier analysis queries.
NumRows == 3

\* The ids of one query of the nullifier analysis.  BATCH_SIZE is 1000
\* (line 5); the batches of the model hold this many ids, so that an input
\* file of MaxIds ids is queried in more than one batch.
QueryBatchSize == 2

\* The most addresses the zero-score scanner is called with.
MaxScanAddrs == 5

\* The addresses of one batch of the zero-score scanner.  Its batchSize is
\* 10 (part_002, line 66); the batches of the model hold this many
\* addresses, so that a call with MaxScanAddrs addresses has several batches
\* and every order in which the reads of a batch settle is run through.
ScanBatchSize == 3

\* ---------------------------------------------------- program constants
SCORE_DECIMALS == 4

batchSize == 5

\* The value of an optional property that is not there.
Undefined == "undefined"

\* ------------------------------------------------------------ characters
Digits == {"0", "1", "2", "3", "4", "5", "6", "7", "8", "9"}

DigitVal(c) ==
  CASE c = "0" -> 0 [] c = "1" -> 1 [] c = "2" -> 2 [] c = "3" -> 3
    [] c = "4" -> 4 [] c = "5" -> 5 [] c = "6" -> 6 [] c = "7" -> 7
    [] c = "8" -> 8 [] c = "9" -> 9

IsDigit(c) == c \in Digits

AllDigits(s) == \A k \in 1..Len(s) : IsDigit(s[k])

\* The length of the longest run of digits of s that starts at index p.
RECURSIVE DigitRun(_, _)
DigitRun(s, p) ==
  IF p <= Len(s) /\ IsDigit(s[p]) THEN 1 + DigitRun(s, p + 1) ELSE 0

Drop(s, n) == SubSeq(s, n + 1, Len(s))

Take(s, n) == SubSeq(s, 1, n)

RECURSIVE StripZeros(_)
StripZeros(s) ==
  IF s # <<>> /\ Head(s) = "0" THEN StripZeros(Tail(s)) ELSE s

RECURSIVE Zeros(_)
Zeros(n) == IF n <= 0 THEN <<>> ELSE <<"0">> \o Zeros(n - 1)

\* ---------------------------------------------------------------- bigint
\* BigInt(sign + digits): the value of a string of decimal digits.
BigIntOf(neg, digits) ==
  LET d == StripZeros(digits)
  IN  [neg |-> neg /\ d # <<>>, digits |-> d]

RECURSIVE LexLeq(_, _)
LexLeq(a, b) ==
  IF a = <<>> THEN TRUE
  ELSE IF DigitVal(Head(a)) # DigitVal(Head(b))
       THEN DigitVal(Head(a)) < DigitVal(Head(b))
       ELSE LexLeq(Tail(a), Tail(b))

\* a <= b for two digit strings without leading zeros.
MagLeq(a, b) ==
  \/ Len(a) < Len(b)
  \/ Len(a) = Len(b) /\ LexLeq(a, b)

\* 2^32 - 1, 2^128 - 1 and 2^256 - 1 in decimal.
MaxUint32 == <<"4","2","9","4","9","6","7","2","9","5">>

MaxUint128 ==
  <<"3","4","0","2","8","2","3","6","6","9","2","0","9","3","8","4","6","3","4",
    "6","3","3","7","4","6","0","7","4","3","1","7","6","8","2","1","1","4","5","5">>

MaxUint256 ==
  <<"1","1","5","7","9","2","0","8","9","2","3","7","3","1","6","1","9","5","4",
    "2","3","5","7","0","9","8","5","0","0","8","6","8","7","9","0","7","8","5",
    "3","2","6","9","9","8","4","6","6","5","6","4","0","5","6","4","0","3","9",
    "4","5","7","5","8","4","0","0","7","9","1","3","1","2","9","6","3","9","9",
    "3","5">>

\* Whether the ABI coder accepts v for an unsigned type whose largest value is max.
FitsUint(v, max) == ~v.neg /\ MagLeq(v.digits, max)

\* -------------------------------------------------------------- results
\* What a call that may throw gives: a value, or the thrown value.
Ok(v) == [ok |-> TRUE, val |-> v]

\* A thrown Error object with a message.
ErrorObj(msg) == [isError |-> TRUE, message |-> msg]

Throw(e) == [ok |-> FALSE, err |-> e]

\* ---------------------------------------------------------- parseDecimal
\* The first index the pattern (?<=\.\d{4})\d+ matches at: a digit that a
\* point and SCORE_DECIMALS digits precede.  0 when there is none.
MatchesAt(s, p) ==
  /\ p > SCORE_DECIMALS + 1
  /\ p <= Len(s)
  /\ IsDigit(s[p])
  /\ s[p - SCORE_DECIMALS - 1] = "."
  /\ \A k \in (p - SCORE_DECIMALS)..(p - 1) : IsDigit(s[k])

FirstMatch(s) ==
  IF \E p \in 1..Len(s) : MatchesAt(s, p)
  THEN CHOOSE p \in 1..Len(s) :
         MatchesAt(s, p) /\ \A q \in 1..(p - 1) : ~MatchesAt(s, q)
  ELSE 0

\* The string left as it is: no digit removed.
TruncatedNone(s) == s

\* decimalStr.replace(pattern, ""): the first match, a whole run of digits,
\* is removed.
Truncated(s) ==
  LET p == FirstMatch(s)
  IN  IF p = 0 THEN s
      ELSE Take(s, p - 1) \o Drop(s, p - 1 + DigitRun(s, p))

\* ethers.parseUnits(value, decimals): the string must match
\* ^(-?)([0-9]*)\.?([0-9]*)$ with at least one digit; the fraction is padded
\* to `decimals` digits and may not hold a non-zero digit beyond them.
ParseUnitsMalformed == "invalid FixedNumber string value"

ParseUnitsUnderflow == "too many decimals for format"

parseUnits(value, decimals) ==
  LET neg   == value # <<>> /\ Head(value) = "-"
      body  == IF neg THEN Tail(value) ELSE value
      nw    == DigitRun(body, 1)
      whole == Take(body, nw)
      rest  == Drop(body, nw)
      frac  == IF rest # <<>> /\ Head(rest) = "." THEN Tail(rest) ELSE rest
      pad   == frac \o Zeros(decimals - Len(frac))
  IN  IF ~AllDigits(frac) \/ Len(whole) + Len(frac) = 0
      THEN Throw(ErrorObj(ParseUnitsMalformed))
      ELSE IF \E k \in (decimals + 1)..Len(pad) : pad[k] # "0"
      THEN Throw(ErrorObj(ParseUnitsUnderflow))
      ELSE Ok(BigIntOf(neg, whole \o Take(pad, decimals)))

parseDecimal(decimalStr) == parseUnits(Truncated(decimalStr), SCORE_DECIMALS)

\* ------------------------------------------------------------ parseFloat
\* The sign class of parseFloat(s): "NaN" when no prefix of s is a decimal
\* literal, else "neg", "zero" or "pos".  The literal is an optional sign, a
\* run of digits, and an optional point with a run of digits, with at least
\* one digit in all; what follows it is ignored.
parseFloatSign(s) ==
  LET signed == s # <<>> /\ Head(s) \in {"-", "+"}
      body   == IF signed THEN Tail(s) ELSE s
      ni     == DigitRun(body, 1)
      rest   == Drop(body, ni)
      nf     == IF rest # <<>> /\ Head(rest) = "." THEN DigitRun(rest, 2) ELSE 0
      digs   == Take(body, ni) \o SubSeq(rest, 2, 1 + nf)
  IN  IF ni + nf = 0 THEN "NaN"
      ELSE IF StripZeros(digs) = <<>> THEN "zero"
      ELSE IF signed /\ Head(s) = "-" THEN "neg"
      ELSE "pos"

\* ---------------------------------------------------------------- BigInt
RECURSIVE NatDigits(_)
NatDigits(n) ==
  IF n = 0 THEN <<>>
  ELSE NatDigits(n \div 10) \o <<CHOOSE c \in Digits : DigitVal(c) = n % 10>>

\* BigInt(n) of a number that is an integer.
BigIntOfNat(n) == [neg |-> FALSE, digits |-> NatDigits(n)]

BigIntSyntaxError == "Cannot convert to a BigInt"

\* BigInt(str): an optional sign and decimal digits; the empty string is 0.
BigIntOfString(str) ==
  LET signed == str # <<>> /\ Head(str) \in {"-", "+"}
      body   == IF signed THEN Tail(str) ELSE str
  IN  IF str = <<>> THEN Ok(BigIntOf(FALSE, <<>>))
      ELSE IF body = <<>> \/ ~AllDigits(body)
      THEN Throw(ErrorObj(BigIntSyntaxError))
      ELSE Ok(BigIntOf(Head(str) = "-", body))

\* ------------------------------------------------------- encodeScoreData
OutOfBounds == "value out-of-bounds"

\* A coder whose score and threshold are uint16.
encodeScoreDataNarrow(score_decimals, scorer_id, score, threshold, stamps) ==
  IF /\ FitsUint(score, <<"6","5","5","3","5">>)
     /\ FitsUint(threshold, <<"6","5","5","3","5">>)
  THEN Ok([score_decimals |-> score_decimals, scorer_id |-> scorer_id,
           score |-> score, threshold |-> threshold, stamps |-> stamps])
  ELSE Throw(ErrorObj("value out-of-bounds"))

\* abiCoder.encode of ["bool","uint8","uint128","uint32","uint32",
\* "tuple(string,uint256)[]"]: the payload is the tuple of the values, and
\* the coder throws for a value outside its type.  passing_score, a bool of
\* the response, is left out of the payload of the model.
encodeScoreData(score_decimals, scorer_id, score, threshold, stamps) ==
  IF /\ FitsUint(score_decimals, <<"2","5","5">>)
     /\ FitsUint(scorer_id, MaxUint128)
     /\ FitsUint(score, MaxUint32)
     /\ FitsUint(threshold, MaxUint32)
     /\ \A n \in 1..Len(stamps) : FitsUint(stamps[n].score, MaxUint256)
  THEN Ok([score_decimals |-> score_decimals, scorer_id |-> scorer_id,
           score |-> score, threshold |-> threshold, stamps |-> stamps])
  ELSE Throw(ErrorObj(OutOfBounds))

\* ------------------------------------------------- createAttestationData
InvalidTime == "The number NaN cannot be converted to a BigInt"

\* A filter that forgets the dedup flag.
KeepStampIgnoringDedup(stamp) == parseFloatSign(stamp.score) = "pos"

\* The filter's test on one entry of scoreData.stamps.
KeepStamp(stamp) == parseFloatSign(stamp.score) = "pos" /\ ~stamp.dedup

RECURSIVE SelectStamps(_)
SelectStamps(entries) ==
  IF entries = <<>> THEN <<>>
  ELSE IF KeepStamp(Head(entries))
       THEN <<Head(entries)>> \o SelectStamps(Tail(entries))
       ELSE SelectStamps(Tail(entries))

\* Object.entries(scoreData.stamps).filter(...): `stamps` is the list of the
\* mapping's entries in its iteration order.
FilterStamps(entries) == SelectStamps(entries)

\* .map(parseDecimal): the first conversion that throws ends the map.
RECURSIVE MapStamps(_)
MapStamps(kept) ==
  IF kept = <<>> THEN Ok(<<>>)
  ELSE LET v == parseDecimal(Head(kept).score)
       IN  IF ~v.ok THEN v
           ELSE LET rest == MapStamps(Tail(kept))
                IN  IF ~rest.ok THEN rest
                    ELSE Ok(<<[provider |-> Head(kept).provider,
                               score |-> v.val]>> \o rest.val)

createAttestationData(address, scoreData, scorerId) ==
  LET t         == scoreData.expiration_timestamp
      stamps    == MapStamps(FilterStamps(scoreData.stamps))
      scorer    == BigIntOfString(scorerId)
      score     == parseDecimal(scoreData.score)
      threshold == parseDecimal(scoreData.threshold)
      encoded   == encodeScoreData(BigIntOfNat(SCORE_DECIMALS), scorer.val,
                                   score.val, threshold.val, stamps.val)
  IN  IF t.nan THEN Throw(ErrorObj(InvalidTime))
      ELSE IF ~stamps.ok THEN stamps
      ELSE IF ~scorer.ok THEN scorer
      ELSE IF ~score.ok THEN score
      ELSE IF ~threshold.ok THEN threshold
      ELSE IF ~encoded.ok THEN encoded
      ELSE Ok([recipient |-> address, expirationTime |-> t.ms \div 1000,
               revocable |-> TRUE, data |-> encoded.val, value |-> 0])

\* ------------------------------------------------------ processAddresses
VARIABLES
  addresses,   \* the input list
  scorerId,    \* COMMUNITY_ID, a string
  env,         \* which answers the scoring service and the ledger may give
               \* in this run: "run" (several addresses) or "encode" (one)
  i,           \* the outer loop's offset into addresses
  k,           \* the inner loop's index into the batch, from 1
  pc,          \* where processAddresses is suspended: "fetch", "submit",
               \* "wait", "delay", or "done" once it has returned
  scoreData,   \* the response of the fetch, while writeScoreOnchain runs
  request,     \* the attestation data handed to submitAttestations
  tx,          \* the transaction submitAttestations returned
  results,     \* the outcome list
  calls,       \* history: the calls made to the outside and the rows pushed
  fetched      \* history: what requestV2Score gave for each position

\* parseDecimal called on its own
VARIABLES
  decimalArg,  \* the string parseDecimal is called with
  parsed       \* <<>> before the call, then the one outcome of the call

parseVars == <<decimalArg, parsed>>

\* No call of parseDecimal on its own is under way.
ParseIdle ==
  /\ decimalArg = <<>>
  /\ parsed = <<>>

\* main of the nullifier analysis (lines 59-166)
VARIABLES
  ids,         \* the ids read from the input file, in the file's order
  table,       \* the rows of ceramic_cache_ceramiccache, by id
  batchIndex,  \* the loop's i: the number of batches queried
  allRecords,  \* the rows retrieved so far
  npc,         \* where main is suspended: "connect", "query", or "done" once
               \* the analysis is written, "failed" once a query threw, and
               \* "idle" when it is not run
  pivotRows,   \* the rows written to nullifier_analysis_pivot.csv
  originals    \* originals.length, the count main prints

nullifierVars ==
  <<ids, table, batchIndex, allRecords, npc, pivotRows, originals>>

\* main of the nullifier analysis is not run.
NullifiersIdle ==
  /\ ids = <<>>
  /\ table = <<>>
  /\ batchIndex = 0
  /\ allRecords = <<>>
  /\ npc = "idle"
  /\ pivotRows = <<>>
  /\ originals = 0

\* getZeroScoreAddresses of the zero-score scanner (part_002, lines 60-97)
VARIABLES
  scanAddresses,       \* the addresses argument
  communityId,         \* the communityId argument
  scanOffset,          \* the loop's i
  slots,               \* what each callback of the batch has returned, in
                       \* the order of the batch; "pending" until it returns
  completion,          \* history: the batch's indices in the order their
                       \* reads settled
  reads,               \* history: the read of each position and its answer
  zeroScoreAddresses,  \* the list being built and returned
  processed,           \* the count of addresses of the finished batches
  spc                  \* "call", then "batch" while a Promise.all is
                       \* awaited, "done" once the function has returned, and
                       \* "idle" when it is not run

scanVars == <<scanAddresses, communityId, scanOffset, slots, completion, reads,
              zeroScoreAddresses, processed, spc>>

\* getZeroScoreAddresses is not run.
ScanIdle ==
  /\ scanAddresses = <<>>
  /\ communityId = 335
  /\ scanOffset = 0
  /\ slots = <<>>
  /\ completion = <<>>
  /\ reads = <<>>
  /\ zeroScoreAddresses = <<>>
  /\ processed = 0
  /\ spc = "idle"

attestVars == <<addresses, scorerId, env, i, k, pc, scoreData, request, tx,
                results, calls, fetched>>

\* The state of the other programs, which processAddresses leaves alone.
otherPrograms == <<parseVars, nullifierVars, scanVars>>

OthersIdle == ParseIdle /\ NullifiersIdle /\ ScanIdle

vars == <<attestVars, otherPrograms>>

NoData == [error |-> Undefined, score |-> <<>>, threshold |-> <<>>,
           expiration_timestamp |-> [nan |-> TRUE, ms |-> 0], stamps |-> <<>>]

NoTx == [hash |-> Undefined]

NoRequest == <<>>

Min(a, b) == IF a <= b THEN a ELSE b

\* addresses.slice(from, to)
Slice(list, from, to) == SubSeq(list, from + 1, Min(to, Len(list)))

\* A batch cut one address short.
BatchShort(list, offset) == Slice(list, offset, offset + batchSize - 1)

\* const batch = addresses.slice(i, i + batchSize)
Batch(list, offset) == Slice(list, offset, offset + batchSize)

\* The position in the input list of the address being processed, from 1.
Pos == i + k

Address == Batch(addresses, i)[k]

\* The test on the error field left out.
TruthyNever(str) == FALSE

\* if (scoreData.error): undefined and the empty string are falsy.
Truthy(str) == str # Undefined /\ str # ""

\* The row of a submitted address (lines 428-432).
SuccessRow(address, data, txHash) ==
  [address |-> address, score |-> data.score, txHash |-> txHash,
   error |-> Undefined]

\* The row of a response that carries an error (line 416).
ApiErrorRow(address, data) ==
  [address |-> address, score |-> <<"0">>, txHash |-> Undefined,
   error |-> data.error]

\* A catch block that pushes the row without its error.
CatchRowNoError(address, error) ==
  [address |-> address, score |-> <<"0">>, txHash |-> Undefined,
   error |-> Undefined]

\* A catch block that records String(error) instead of error.message.
CatchRowStringified(address, error) ==
  [address |-> address, score |-> <<"0">>, txHash |-> Undefined,
   error |-> IF error.isError THEN "Error: " \o error.message
             ELSE error.message]

\* The row the catch block pushes (lines 439-443).
CatchRow(address, error) ==
  [address |-> address, score |-> <<"0">>, txHash |-> Undefined,
   error |-> IF error.isError THEN error.message ELSE "Unknown error"]

NoError == [isError |-> FALSE, message |-> Undefined]

\* One entry of the history: a call made for the current address, or what a
\* call threw.
Event(op) == [op |-> op, pos |-> Pos, err |-> NoError]

Thrown(op, e) == [op |-> op, pos |-> Pos, err |-> e]

\* The loops step to the next address: the next one of the batch, else the
\* first one of the next batch, else the function returns.
NextAddress ==
  LET n == Len(Batch(addresses, i))
  IN  IF k < n THEN /\ k' = k + 1
                    /\ i' = i
                    /\ pc' = "fetch"
      ELSE /\ k' = 1
           /\ i' = i + batchSize
           /\ pc' = IF i + batchSize < Len(addresses) THEN "fetch" ELSE "done"

\* A failure that ends the run: the row is pushed and the function returns.
PushAndReturn(row, log) ==
  /\ results' = Append(results, row)
  /\ calls' = log \o <<Event("push")>>
  /\ scoreData' = NoData
  /\ request' = NoRequest
  /\ tx' = NoTx
  /\ pc' = "done"
  /\ UNCHANGED <<i, k>>

\* A failure that is tried again: the row is pushed and the same address is
\* fetched once more.
PushAndRetry(row, log) ==
  /\ results' = Append(results, row)
  /\ calls' = log \o <<Event("push")>>
  /\ scoreData' = NoData
  /\ request' = NoRequest
  /\ tx' = NoTx
  /\ pc' = "fetch"
  /\ UNCHANGED <<i, k>>

\* results.push(row), and the loop goes on with the next address.
PushAndContinue(row, log) ==
  /\ results' = Append(results, row)
  /\ calls' = log \o <<Event("push")>>
  /\ scoreData' = NoData
  /\ request' = NoRequest
  /\ tx' = NoTx
  /\ NextAddress

\* ------------------------------------------------------------ the inputs
AddressPool == <<"0xAAA1", "0xBBB2">>

\* One input list of each length: the pool's addresses in turn, so that an
\* address comes back at a later position.
AddressList(n) == [p \in 1..n |-> AddressPool[((p - 1) % Len(AddressPool)) + 1]]

Providers == <<"github", "google", "ens", "twitter">>

Date(ms) == [nan |-> FALSE, ms |-> ms]

InvalidDate == [nan |-> TRUE, ms |-> 0]

Response(error, score, threshold, date, stamps) ==
  [error |-> error, score |-> score, threshold |-> threshold,
   expiration_timestamp |-> date, stamps |-> stamps]

Stamp(provider, score, dedup) ==
  [provider |-> provider, score |-> score, dedup |-> dedup]

S5_6789 == <<"5", ".", "6", "7", "8", "9">>

S20 == <<"2", "0", ".", "0", "0", "0", "0">>

Sabc == <<"a", "b", "c">>

S335 == <<"3", "3", "5">>

\* The responses of the runs over several addresses: a scored address, the
\* same with an error reported, and one whose score is no decimal.
GoodResponse ==
  Response(Undefined, S5_6789, S20, Date(1999), <<Stamp("github", S5_6789, FALSE)>>)

RateLimited ==
  Response("rate limited", S5_6789, S20, Date(1999),
           <<Stamp("github", S5_6789, FALSE)>>)

BadScore ==
  Response(Undefined, Sabc, S20, Date(1999), <<Stamp("github", S5_6789, FALSE)>>)

RunResponses == {GoodResponse, RateLimited, BadScore}

\* ------------------------------------------- the inputs of one encoding
\* Decimal strings: a sign, a whole part and a fraction, each from a few; the
\* wholes and fractions reach the uint32 limit, 429496.7295, and go past
\* SCORE_DECIMALS digits.
Signs == {<<>>, <<"-">>}

Wholes == {<<>>, <<"0">>, <<"5">>, <<"4", "2", "9", "4", "9", "6">>}

Fracs ==
  {<<>>, <<".">>, <<".", "0">>, <<".", "0", "0", "0", "0", "1">>,
   <<".", "7", "2", "9", "5", "9">>, <<".", "7", "2", "9", "6">>}

\* Strings that are no decimal.
Junk ==
  {Sabc, <<"1", ".", "2", ".", "3">>, <<"+", "1", ".", "5">>,
   <<"1", "e", "5">>, <<"5", ".", "6", "7", "8", "9", "x">>}

DecimalStrings ==
  {sg \o w \o f : sg \in Signs, w \in Wholes, f \in Fracs} \cup Junk

Thresholds == {S20, Sabc, <<"4", "2", "9", "4", "9", "6", ".", "7", "2", "9", "6">>}

StampScores ==
  {S5_6789, <<"0">>, <<"0", ".", "0", "0", "0", "0", "1">>, <<"-", "1">>,
   Sabc, <<"1", ".", "2", ".", "3">>}

\* The mappings of up to `most` providers, as their lists of entries.
StampLists(most) ==
  UNION {{[p \in 1..n |-> Stamp(Providers[p], f[p][1], f[p][2])] :
            f \in [1..n -> StampScores \X BOOLEAN]} : n \in 0..most}

OneStamp == <<Stamp("github", S5_6789, FALSE)>>

\* The responses of the runs over one address: every score with a few
\* thresholds, every mapping of up to `most` stamps, and the error fields and
\* dates.
EncodeResponses(most) ==
  {Response(Undefined, s, t, Date(1999), OneStamp) :
     s \in DecimalStrings, t \in Thresholds}
  \cup {Response(Undefined, S5_6789, S20, Date(1999), st) :
          st \in StampLists(most)}
  \cup {Response(e, s, S20, d, OneStamp) :
          e \in {Undefined, "", "rate limited"}, s \in {S5_6789, Sabc},
          d \in {Date(1999), InvalidDate}}

ScorerIds == {S335, Sabc}

\* What the outside may answer in a run of the kind `name`: the responses of
\* the scoring service, and what requestV2Score, submitAttestations and
\* tx.wait may throw (an Error, or for the fetch also a value that is none).
Responses(name) ==
  IF name = "run" THEN RunResponses ELSE EncodeResponses(MaxStamps)

FetchFaults(name) ==
  IF name = "run" THEN {ErrorObj("Network Error")}
  ELSE {ErrorObj("Network Error"),
        [isError |-> FALSE, message |-> "socket hang up"]}

SubmitFaults(name) == {ErrorObj("nonce too low")}

WaitFaults(name) == {ErrorObj("transaction execution reverted")}

\* ------------------------------------------------------------ the actions
\* The hash of the transaction sent for the address at position pos.
TxHashOf(pos) == "0xTX" \o ToString(pos)

\* requestV2Score answers for the current address; the loop body runs up to
\* its next await (lines 409-426, 376-385, 437-444).
RequestV2Score ==
  /\ pc = "fetch"
  /\ \E answer \in {Throw(e) : e \in FetchFaults(env)}
                     \cup {Ok(r) : r \in Responses(env)} :
       LET log == calls \o <<Event("fetch")>>
       IN  /\ fetched' = Append(fetched, answer)
           /\ IF ~answer.ok
              THEN PushAndContinue(CatchRow(Address, answer.err), log)
              ELSE IF Truthy(answer.val.error)
              THEN PushAndContinue(ApiErrorRow(Address, answer.val), log)
              ELSE LET att == createAttestationData(Address, answer.val, scorerId)
                   IN  IF ~att.ok
                       THEN PushAndContinue(CatchRow(Address, att.err),
                                            log \o <<Event("encode")>>)
                       ELSE /\ scoreData' = answer.val
                            /\ request' = <<att.val>>
                            /\ calls' = log \o <<Event("encode"), Event("submit")>>
                            /\ pc' = "submit"
                            /\ UNCHANGED <<i, k, tx, results>>
  /\ UNCHANGED <<addresses, scorerId, env, otherPrograms>>

\* contract.submitAttestations settles (line 385, 390-392, 437-444).
SubmitAttestations ==
  /\ pc = "submit"
  /\ \/ \E e \in SubmitFaults(env) :
          PushAndContinue(CatchRow(Address, e),
                          calls \o <<Thrown("submitFailed", e)>>)
     \/ /\ tx' = [hash |-> TxHashOf(Pos)]
        /\ pc' = "wait"
        /\ UNCHANGED <<i, k, scoreData, request, results, calls>>
  /\ UNCHANGED <<addresses, scorerId, env, fetched, otherPrograms>>

\* tx.wait() settles (lines 386-389, 428-435, 390-392, 437-444).
TxWait ==
  /\ pc = "wait"
  /\ \/ \E e \in WaitFaults(env) :
          PushAndContinue(CatchRow(Address, e),
                          calls \o <<Thrown("submitFailed", e)>>)
     \/ /\ results' = Append(results, SuccessRow(Address, scoreData, tx.hash))
        /\ calls' = calls \o <<Event("push")>>
        /\ pc' = "delay"
        /\ UNCHANGED <<i, k, scoreData, request, tx>>
  /\ UNCHANGED <<addresses, scorerId, env, fetched, otherPrograms>>

\* The timer of line 435 fires.
Delay ==
  /\ pc = "delay"
  /\ calls' = calls \o <<Event("delay")>>
  /\ scoreData' = NoData
  /\ request' = NoRequest
  /\ tx' = NoTx
  /\ NextAddress
  /\ UNCHANGED <<addresses, scorerId, env, results, fetched, otherPrograms>>

Next == RequestV2Score \/ SubmitAttestations \/ TxWait \/ Delay

InitRun(list, id, e) ==
  /\ addresses = list
  /\ scorerId = id
  /\ env = e
  /\ i = 0
  /\ k = 1
  /\ pc = IF 0 < Len(list) THEN "fetch" ELSE "done"
  /\ scoreData = NoData
  /\ request = NoRequest
  /\ tx = NoTx
  /\ results = <<>>
  /\ calls = <<>>
  /\ fetched = <<>>

Init ==
  /\ \E n \in 0..MaxAddrs : InitRun(AddressList(n), S335, "run")
  /\ OthersIdle

Spec == Init /\ [][Next]_vars

\* One address, and every response of EncodeResponses for it.
InitEncode ==
  /\ \E id \in ScorerIds : InitRun(AddressList(1), id, "encode")
  /\ OthersIdle

\* processAddresses is not running: an empty run that has returned.
AttestIdle == InitRun(<<>>, S335, "run")

SpecEncode == InitEncode /\ [][Next]_vars

\* ------------------------------------------- parseDecimal on its own
\* The digit strings of the given length over the digits 0, 5 and 9: zeros
\* to pad and to drop, and digits a rounding would carry.
FracDigits == {"0", "5", "9"}

DigitStrings(len) == [1..len -> FracDigits]

\* The fractions of up to `most` digits, and the three of "2.1234",
\* "2.12345" and "2.12349".
Fractions(most) ==
  {<<>>}
  \cup UNION {{<<".">> \o d : d \in DigitStrings(len)} : len \in 0..most}
  \cup {<<".", "1", "2", "3", "4">>, <<".", "1", "2", "3", "4", "5">>,
        <<".", "1", "2", "3", "4", "9">>}

\* The strings parseDecimal is called with: a sign, a whole part and a
\* fraction, and the strings that are no decimal.
ParseInputs(most) ==
  {sg \o w \o f : sg \in Signs, w \in Wholes \cup {<<"2">>},
                  f \in Fractions(most)}
  \cup Junk

\* parseDecimal(decimalStr) is called and returns or throws (lines 197-201).
ParseDecimal ==
  /\ parsed = <<>>
  /\ parsed' = <<parseDecimal(decimalArg)>>
  /\ UNCHANGED <<decimalArg, attestVars, nullifierVars, scanVars>>

NextParse == ParseDecimal

InitParse ==
  /\ \E s \in ParseInputs(MaxFrac) : decimalArg = s
  /\ parsed = <<>>
  /\ AttestIdle
  /\ NullifiersIdle
  /\ ScanIdle

SpecParse == InitParse /\ [][NextParse]_vars

\* ------------------------------------------------ the nullifier analysis
\* A nullifier of a stamp: its version prefix and the rest of it.
Nullifier(version, hash) == [version |-> version, hash |-> hash]

\* What extractV1Nullifier returns for a stamp without a v1 nullifier.
Null == Nullifier("null", "")

\* stampData.credentialSubject.nullifiers.find(n => n.startsWith('v1:')),
\* or null (lines 44-57).
extractV1Nullifier(stamp) ==
  LET found == {n \in 1..Len(stamp) : stamp[n].version = "v1"}
  IN  IF found = {} THEN Null
      ELSE stamp[CHOOSE n \in found : \A m \in found : n <= m]

\* The lists of nullifiers of the stamps of the table: none of v1, one of
\* v1, and one of v1 behind one of v0.
Stamps ==
  {<<Nullifier("v0", "a")>>, <<Nullifier("v1", "a")>>,
   <<Nullifier("v0", "a"), Nullifier("v1", "b")>>}

\* The values of created_at.
Times == {1, 2}

\* The tables: a row for each id of 1..NumRows.
Row(id, created_at, stamp) ==
  [id |-> id, created_at |-> created_at, stamp |-> stamp]

Tables ==
  {[id \in 1..NumRows |-> Row(id, f[id][1], f[id][2])] :
     f \in [1..NumRows -> Times \X Stamps]}

\* The input files: every list of up to `most` ids of the table; an id may
\* be there more than once.
IdLists(most) == UNION {[1..n -> 1..NumRows] : n \in 0..most}

\* Math.ceil(ids.length / BATCH_SIZE)
Batches == (Len(ids) + QueryBatchSize - 1) \div QueryBatchSize

\* ids.slice(i * BATCH_SIZE, (i + 1) * BATCH_SIZE)
BatchIds == Slice(ids, batchIndex * QueryBatchSize,
                       (batchIndex + 1) * QueryBatchSize)

\* The results a query for the ids may give (lines 32-42): the rows whose id
\* is among them, each once, by created_at ascending; rows of equal
\* created_at come in any order.
QueryResults(wanted) ==
  LET hit == {id \in 1..NumRows : \E n \in 1..Len(wanted) : wanted[n] = id}
  IN  {[n \in 1..Cardinality(hit) |-> table[order[n]]] :
         order \in {o \in [1..Cardinality(hit) -> hit] :
                      /\ \A a, b \in 1..Cardinality(hit) :
                           a # b => o[a] # o[b]
                      /\ \A a, b \in 1..Cardinality(hit) :
                           a < b =>
                             table[o[a]].created_at <= table[o[b]].created_at}}

\* allRecords.map(...).filter(r => r.v1_nullifier !== null) (lines 94-98)
RECURSIVE processedRecords(_)
processedRecords(records) ==
  IF records = <<>> THEN <<>>
  ELSE LET r   == Head(records)
           row == [id |-> r.id, created_at |-> r.created_at,
                   v1_nullifier |-> extractV1Nullifier(r.stamp)]
       IN  (IF row.v1_nullifier # Null THEN <<row>> ELSE <<>>)
           \o processedRecords(Tail(records))

\* The record put in its place in a list sorted by created_at: behind the
\* records that are not later than it (Array.prototype.sort is stable).
RECURSIVE Insert(_, _)
Insert(sorted, r) ==
  IF sorted = <<>> THEN <<r>>
  ELSE IF Head(sorted).created_at <= r.created_at
  THEN <<Head(sorted)>> \o Insert(Tail(sorted), r)
  ELSE <<r>> \o sorted

\* [...processedRecords].sort by created_at (lines 116-118)
RECURSIVE sortedRecords(_)
sortedRecords(records) ==
  IF records = <<>> THEN <<>>
  ELSE Insert(sortedRecords(SubSeq(records, 1, Len(records) - 1)),
              records[Len(records)])

\* nullifierFirstUse.get(nullifier): the id and created_at of the first
\* record of the sorted list with that nullifier (lines 121-128).
nullifierFirstUse(sorted, nullifier) ==
  LET uses  == {n \in 1..Len(sorted) : sorted[n].v1_nullifier = nullifier}
      first == CHOOSE n \in uses : \A m \in uses : n <= m
  IN  [id |-> sorted[first].id, created_at |-> sorted[first].created_at]

\* firstUse.id === record.id (lines 134, 158)
isOriginal(firstUse, record) == firstUse.id = record.id

\* The rows of the pivot file (lines 131-138).
PivotRows(records) ==
  LET kept   == processedRecords(records)
      sorted == sortedRecords(kept)
  IN  [n \in 1..Len(kept) |->
         [id |-> kept[n].id,
          created_at |-> kept[n].created_at,
          v1_nullifier |-> kept[n].v1_nullifier,
          is_original |->
            isOriginal(nullifierFirstUse(sorted, kept[n].v1_nullifier),
                       kept[n])]]

\* processedRecords.filter(first use is this record).length (lines 156-160)
Originals(records) ==
  LET kept   == processedRecords(records)
      sorted == sortedRecords(kept)
  IN  Cardinality({n \in 1..Len(kept) :
        isOriginal(nullifierFirstUse(sorted, kept[n].v1_nullifier),
                   kept[n])})

\* The loop has ended: the analysis is made and written (lines 91-161).
Analyze(records) ==
  /\ pivotRows' = PivotRows(records)
  /\ originals' = Originals(records)
  /\ npc' = "done"

\* client.connect() resolves (lines 77-83); without ids there is no batch
\* and the analysis follows at once.
Connect ==
  /\ npc = "connect"
  /\ IF Batches = 0 THEN Analyze(allRecords)
     ELSE /\ npc' = "query"
          /\ UNCHANGED <<pivotRows, originals>>
  /\ UNCHANGED <<ids, table, batchIndex, allRecords, parseVars, attestVars,
                 scanVars>>

\* queryStampsForIds resolves (lines 87-89); after the last batch the
\* analysis follows.
QueryStampsForIds ==
  /\ npc = "query"
  /\ \E batchRecords \in QueryResults(BatchIds) :
       /\ allRecords' = allRecords \o batchRecords
       /\ batchIndex' = batchIndex + 1
       /\ IF batchIndex + 1 < Batches
          THEN UNCHANGED <<npc, pivotRows, originals>>
          ELSE Analyze(allRecords \o batchRecords)
  /\ UNCHANGED <<ids, table, parseVars, attestVars, scanVars>>

\* queryStampsForIds rejects: main ends in its finally block with nothing
\* analysed (lines 163-165).
QueryRejects ==
  /\ npc = "query"
  /\ npc' = "failed"
  /\ UNCHANGED <<ids, table, batchIndex, allRecords, pivotRows, originals,
                 parseVars, attestVars, scanVars>>

NextNullifiers == Connect \/ QueryStampsForIds \/ QueryRejects

InitNullifiers ==
  /\ \E list \in IdLists(MaxIds) : ids = list
  /\ \E t \in Tables : table = t
  /\ batchIndex = 0
  /\ allRecords = <<>>
  /\ npc = "connect"
  /\ pivotRows = <<>>
  /\ originals = 0
  /\ AttestIdle
  /\ ParseIdle
  /\ ScanIdle

SpecNullifiers == InitNullifiers /\ [][NextNullifiers]_vars

\* ------------------------------------------------ the zero-score scanner
\* const now = Math.floor(Date.now() / 1000) (line 65): the time of the call.
now == 1000

\* A callback that has not returned, and the null one returns (line 87).
Pending == "pending"

NullResult == "null"

\* What a read is settled with: the contract's score and expirationTime of
\* the address, or a rejection.
Answer(kind, score, expirationTime) ==
  [kind |-> kind, score |-> score, expirationTime |-> expirationTime]

Rejection == Answer("rejected", 0, 0)

\* The answers of the contract: a zero score that expires after the call, one
\* that expires at the time of the call, and a score that is not zero.
ReadAnswers ==
  {Answer("resolved", 0, now + 1), Answer("resolved", 0, now),
   Answer("resolved", 5, now + 1)}

\* The read the callback makes for an address (lines 76-80).
ReadOf(address) ==
  [fn |-> IF communityId = 335 THEN "scores" ELSE "communityScores",
   address |-> address, answer |-> Answer("none", 0, 0)]

\* What the callback returns once its read has settled (lines 81-87).
CallbackResult(address, answer) ==
  IF answer.kind = "resolved" /\ answer.expirationTime > now /\ answer.score = 0
  THEN address
  ELSE NullResult

\* The batch that starts at the offset (line 71).
ScanBatch(offset) == Slice(scanAddresses, offset, offset + ScanBatchSize)

\* The results in the order the reads settled.
ResultsInCompletionOrder ==
  [n \in 1..Len(completion) |-> slots[completion[n]]]

\* What Promise.all resolves with: the callbacks' results in the order of the
\* batch (line 72).
PromiseAllResults == slots

\* results.filter(addr => !!addr) (line 90)
RECURSIVE FilterResults(_)
FilterResults(list) ==
  IF list = <<>> THEN <<>>
  ELSE (IF Head(list) # NullResult /\ Head(list) # "" THEN <<Head(list)>>
        ELSE <<>>)
       \o FilterResults(Tail(list))

\* The loop at the offset (lines 70-73, 96): the callbacks of the batch each
\* start their read, or the function returns when no address is left.
EnterLoop(offset) ==
  /\ scanOffset' = offset
  /\ IF offset < Len(scanAddresses)
     THEN /\ slots' = [n \in 1..Len(ScanBatch(offset)) |-> Pending]
          /\ completion' = <<>>
          /\ reads' = reads \o [n \in 1..Len(ScanBatch(offset)) |->
                                  ReadOf(ScanBatch(offset)[n])]
          /\ spc' = "batch"
     ELSE /\ slots' = <<>>
          /\ completion' = completion
          /\ reads' = reads
          /\ spc' = "done"

\* getZeroScoreAddresses is called (lines 65-73).
GetZeroScoreAddresses ==
  /\ spc = "call"
  /\ EnterLoop(0)
  /\ UNCHANGED <<scanAddresses, communityId, zeroScoreAddresses, processed,
                 parseVars, attestVars, nullifierVars>>

\* The read of one callback of the batch settles with the answer, whichever
\* of the reads in flight it is, and the callback returns.
ReadSettles(n, answer) ==
  /\ spc = "batch"
  /\ slots[n] = Pending
  /\ slots' = [slots EXCEPT
                 ![n] = CallbackResult(ScanBatch(scanOffset)[n], answer)]
  /\ completion' = Append(completion, n)
  /\ reads' = [reads EXCEPT ![scanOffset + n].answer = answer]
  /\ UNCHANGED <<scanAddresses, communityId, scanOffset, zeroScoreAddresses,
                 processed, spc, parseVars, attestVars, nullifierVars>>

\* A read resolves (lines 77, 79, 81-83, 87).
ReadResolves ==
  \E n \in 1..Len(slots) : \E answer \in ReadAnswers : ReadSettles(n, answer)

\* A read rejects (lines 84-87).
ReadRejects ==
  \E n \in 1..Len(slots) : ReadSettles(n, Rejection)

\* Every callback of the batch has returned: Promise.all resolves, the
\* addresses found are pushed and the loop goes on (lines 72, 90-96).
PromiseAllResolves ==
  /\ spc = "batch"
  /\ \A n \in 1..Len(slots) : slots[n] # Pending
  /\ zeroScoreAddresses' =
       zeroScoreAddresses \o FilterResults(PromiseAllResults)
  /\ processed' = processed + Len(ScanBatch(scanOffset))
  /\ EnterLoop(scanOffset + ScanBatchSize)
  /\ UNCHANGED <<scanAddresses, communityId, parseVars, attestVars,
                 nullifierVars>>

NextScan ==
  GetZeroScoreAddresses \/ ReadResolves \/ ReadRejects \/ PromiseAllResolves

InitScan ==
  /\ \E n \in 0..MaxScanAddrs : scanAddresses = AddressList(n)
  /\ communityId \in {335, 7}
  /\ scanOffset = 0
  /\ slots = <<>>
  /\ completion = <<>>
  /\ reads = <<>>
  /\ zeroScoreAddresses = <<>>
  /\ processed = 0
  /\ spc = "call"
  /\ AttestIdle
  /\ ParseIdle
  /\ NullifiersIdle

SpecScan == InitScan /\ [][NextScan]_vars

\* ------------------------------------------------------------ the claims
NumAddresses == Len(addresses)

\* A field of a row is set when it is there and not empty (writeCsv and main
\* read it with ||, as a truth value).
IsSet(str) == str # Undefined /\ str # ""

HasCall(op, p) == \E n \in 1..Len(calls) : calls[n].op = op /\ calls[n].pos = p

CallCount(op, p) ==
  Cardinality({n \in 1..Len(calls) : calls[n].op = op /\ calls[n].pos = p})

\* The message the catch block records for a thrown value.
MessageOf(e) == IF e.isError THEN e.message ELSE "Unknown error"

\* C1: every outcome of the result list has exactly one of txHash and error
\* set, never both and never neither, whatever failed.
C1_ExactlyOneOfTxHashError ==
  \A n \in 1..Len(results) :
    IsSet(results[n].txHash) # IsSet(results[n].error)

\* C1 witness: a finished run whose list holds a submitted address and a
\* failed one.
C1_Witness ==
  /\ pc = "done"
  /\ \E n, m \in 1..Len(results) :
       IsSet(results[n].txHash) /\ IsSet(results[m].error)

\* C2 as stated: after a fetch that gave score s, a submission that fails
\* with cause c leaves the row (address, s, no transaction, c).
C2_FailedSubmissionKeepsScore ==
  \A n \in 1..Len(calls) :
    (calls[n].op = "submitFailed" /\ calls[n].pos <= Len(results)) =>
      results[calls[n].pos] =
        [address |-> addresses[calls[n].pos],
         score |-> fetched[calls[n].pos].val.score,
         txHash |-> Undefined,
         error |-> MessageOf(calls[n].err)]

\* C2 amended: after a fetch that gave score s, a submission that fails
\* with cause c leaves the row (address, "0", no transaction, message of c):
\* the fetched score is not reported.
C2_FailedSubmissionRow ==
  \A n \in 1..Len(calls) :
    (calls[n].op = "submitFailed" /\ calls[n].pos <= Len(results)) =>
      /\ fetched[calls[n].pos].ok
      /\ ~Truthy(fetched[calls[n].pos].val.error)
      /\ results[calls[n].pos] =
           [address |-> addresses[calls[n].pos],
            score |-> <<"0">>,
            txHash |-> Undefined,
            error |-> MessageOf(calls[n].err)]

\* C2 witness: the second address was fetched with score 5.6789 and its
\* submission failed with "nonce too low".
C2_Witness ==
  /\ Len(results) >= 2
  /\ fetched[2].ok /\ fetched[2].val.score = S5_6789
  /\ \E n \in 1..Len(calls) :
       /\ calls[n].op = "submitFailed" /\ calls[n].pos = 2
       /\ calls[n].err.message = "nonce too low"

\* C3 as stated: the fetch of every address but the first comes right after a
\* delay, whichever way the address before it ended.
C3_DelayBeforeEveryNextFetch ==
  \A n \in 2..Len(calls) :
    calls[n].op = "fetch" => calls[n - 1].op = "delay"

\* C4: a failure never stops the run: the run can go on until it has
\* returned, and it has returned only when every address was fetched once and
\* has its row, the addresses after a failed one included.
C4_FailureNeverStopsRun ==
  /\ pc # "done" => ENABLED Next
  /\ pc = "done" =>
       \A p \in 1..NumAddresses :
         /\ CallCount("fetch", p) = 1
         /\ CallCount("push", p) = 1
         /\ p <= Len(results)
  /\ \A p \in 1..Len(results) :
       (IsSet(results[p].error) /\ p < NumAddresses) =>
         (pc # "done" /\ Pos = p + 1) \/ HasCall("fetch", p + 1)

\* C4 witness: a finished run in which the first address failed and a later
\* one was submitted.
C4_Witness ==
  /\ pc = "done"
  /\ NumAddresses >= 3
  /\ IsSet(results[1].error)
  /\ IsSet(results[2].error)
  /\ IsSet(results[3].txHash)

\* C5: the outcome list has one outcome per input address in the input
\* order: it is never longer than the input, its p-th row is for the p-th
\* address, and on return it is as long as the input.
C5_OneOutcomePerAddressInOrder ==
  /\ Len(results) <= NumAddresses
  /\ \A p \in 1..Len(results) : results[p].address = addresses[p]
  /\ pc = "done" => Len(results) = NumAddresses

\* C5 witness: a finished run over more than one batch, with a failure in the
\* first batch.
C5_Witness ==
  /\ pc = "done"
  /\ NumAddresses > batchSize
  /\ Len(results) = NumAddresses
  /\ \E p \in 1..batchSize : IsSet(results[p].error)
  /\ IsSet(results[NumAddresses].txHash)

\* C6: a response with a non-empty error field gives the row (address, "0",
\* no transaction, the error text), and nothing is encoded or submitted for
\* that address.
C6_ApiErrorIsZeroScore ==
  \A p \in 1..Len(fetched) :
    (fetched[p].ok /\ IsSet(fetched[p].val.error)) =>
      /\ ~HasCall("encode", p)
      /\ ~HasCall("submit", p)
      /\ p <= Len(results)
      /\ results[p] = [address |-> addresses[p], score |-> <<"0">>,
                       txHash |-> Undefined, error |-> fetched[p].val.error]

\* C6 witness: the service answered "rate limited" with an otherwise valid
\* record.
C6_Witness ==
  \E p \in 1..Len(fetched) :
    /\ fetched[p].ok
    /\ fetched[p].val.error = "rate limited"
    /\ fetched[p].val.score = S5_6789
    /\ p <= Len(results)

\* --------------------------------------------- the claims on the encoding
\* A well-formed decimal string: an optional minus sign, then digits with at
\* most one point among them, and at least one digit.
WellFormedDecimal(s) ==
  LET body == IF s # <<>> /\ Head(s) = "-" THEN Tail(s) ELSE s
  IN  /\ \A n \in 1..Len(body) : body[n] \in Digits \cup {"."}
      /\ Cardinality({n \in 1..Len(body) : body[n] = "."}) <= 1
      /\ \E n \in 1..Len(body) : body[n] \in Digits

\* The value of a well-formed decimal string is greater than zero.
DecimalPositive(s) ==
  /\ Head(s) # "-"
  /\ \E n \in 1..Len(s) : s[n] \in Digits \ {"0"}

\* The digits of |value| * 10^4, cut to a whole number, of a well-formed
\* decimal string; no leading zeros.
ScaledValue(s) ==
  LET body  == IF Head(s) = "-" THEN Tail(s) ELSE s
      dots  == {n \in 1..Len(body) : body[n] = "."}
      d     == IF dots = {} THEN Len(body) + 1 ELSE CHOOSE n \in dots : TRUE
      digit(n) == IF n <= Len(body) THEN body[n] ELSE "0"
  IN  StripZeros(SubSeq(body, 1, d - 1)
                 \o [n \in 1..4 |-> digit(d + n)])

\* The scaled value of a well-formed decimal string is in 0 .. max.
ScaledWithin(s, max) ==
  /\ Head(s) = "-" => ScaledValue(s) = <<>>
  /\ MagLeq(ScaledValue(s), max)

WellFormedRecord(r) ==
  /\ WellFormedDecimal(r.score)
  /\ WellFormedDecimal(r.threshold)
  /\ \A n \in 1..Len(r.stamps) : WellFormedDecimal(r.stamps[n].score)

HasMalformedDecimal(r) == ~WellFormedRecord(r)

\* The expiration timestamp is a date and the scorer id is a number of uint128.
EncodableContext(r) ==
  /\ ~r.expiration_timestamp.nan
  /\ scorerId # <<>> /\ AllDigits(scorerId)
  /\ MagLeq(StripZeros(scorerId), MaxUint128)

\* C7 as stated: a malformed decimal string anywhere in a fetched record (the
\* score, the threshold or the score of any stamp) is fatal to the address:
\* nothing is submitted for it and its row carries an error.
C7_MalformedDecimalIsFatal ==
  \A p \in 1..Len(fetched) :
    (fetched[p].ok /\ HasMalformedDecimal(fetched[p].val)) =>
      /\ ~HasCall("submit", p)
      /\ p <= Len(results) => IsSet(results[p].error)

GtZero(v) == ~v.neg /\ v.digits # <<>>

EntryOf(provider) ==
  CHOOSE n \in 1..Len(scoreData.stamps) : scoreData.stamps[n].provider = provider

Qualifies(stamp) == ~stamp.dedup /\ DecimalPositive(stamp.score)

FractionDigits(s) ==
  LET dots == {n \in 1..Len(s) : s[n] = "."}
  IN  IF dots = {} THEN <<>>
      ELSE SubSeq(s, (CHOOSE n \in dots : TRUE) + 1, Len(s))

\* A well-formed decimal string cut to its first 4 fractional digits.
CutToFour(s) ==
  IF Len(FractionDigits(s)) <= 4 THEN s
  ELSE SubSeq(s, 1, Len(s) - Len(FractionDigits(s)) + 4)

\* The whole number value * 10^4 cut toward zero, as a bigint.
ScaledBigInt(s) ==
  [neg |-> Head(s) = "-" /\ ScaledValue(s) # <<>>, digits |-> ScaledValue(s)]

\* C11: parseDecimal truncates and never rounds: for a well-formed decimal
\* string it returns the value times 10^4 with every digit past the fourth
\* fractional one dropped, which is what it returns for the string cut to its
\* first 4 fractional digits, and the exact value times 10^4 when there are
\* at most 4 of them.
C11_TruncatesNeverRounds ==
  (parsed # <<>> /\ WellFormedDecimal(decimalArg)) =>
    /\ parsed[1] = Ok(ScaledBigInt(decimalArg))
    /\ parsed[1] = parseDecimal(CutToFour(decimalArg))
    /\ ScaledBigInt(CutToFour(decimalArg)) = ScaledBigInt(decimalArg)

\* C11 witness: "2.12349" has been parsed, to 21234 and not to 21235.
C11_Witness ==
  /\ decimalArg = <<"2", ".", "1", "2", "3", "4", "9">>
  /\ parsed = <<Ok([neg |-> FALSE, digits |-> <<"2", "1", "2", "3", "4">>])>>

\* ----------------------------------------------- the claims on attempts
\* The call is the first one of its kind for its position.
FirstOfItsKind(n) ==
  \A m \in 1..(n - 1) :
    ~(calls[m].op = calls[n].op /\ calls[m].pos = calls[n].pos)

\* C12: there is a single attempt per address and no retry: each position of
\* the input list causes at most one score fetch and at most one call of
\* submitAttestations, and a submission is only made after the fetch for
\* that position returned a record without an error field.
C12_SingleAttemptNoRetry ==
  \A n \in 1..Len(calls) :
    /\ calls[n].op \in {"fetch", "submit"} =>
         /\ calls[n].pos \in 1..NumAddresses
         /\ FirstOfItsKind(n)
    /\ calls[n].op = "submit" =>
         /\ \E m \in 1..(n - 1) :
              calls[m].op = "fetch" /\ calls[m].pos = calls[n].pos
         /\ calls[n].pos <= Len(fetched)
         /\ fetched[calls[n].pos].ok
         /\ ~Truthy(fetched[calls[n].pos].val.error)

\* C12 witness: a finished run in which one address's fetch threw, another's
\* record had an error field, and a third's submission failed: each was
\* fetched once, the first two were never submitted and the third once.
C12_Witness ==
  /\ pc = "done"
  /\ \E p, q, r \in 1..NumAddresses :
       /\ ~fetched[p].ok
       /\ CallCount("fetch", p) = 1 /\ CallCount("submit", p) = 0
       /\ fetched[q].ok /\ Truthy(fetched[q].val.error)
       /\ CallCount("fetch", q) = 1 /\ CallCount("submit", q) = 0
       /\ HasCall("submitFailed", r)
       /\ CallCount("fetch", r) = 1 /\ CallCount("submit", r) = 1

\* --------------------------------- the claims on the nullifier analysis
\* The v1 nullifiers of the rows of the pivot file.
PivotNullifiers == {pivotRows[n].v1_nullifier : n \in 1..Len(pivotRows)}

\* The rows of the pivot file with the nullifier that are marked original.
OriginalRows(nullifier) ==
  {n \in 1..Len(pivotRows) :
     pivotRows[n].v1_nullifier = nullifier /\ pivotRows[n].is_original}

\* C13: in the nullifier analysis, whatever records the queries returned
\* (the same id returned by more than one batch and records of equal
\* created_at among them), each distinct v1 nullifier has exactly one record
\* marked original, the others are copies, and the number of originals is
\* the number of distinct nullifiers.
C13_OneOriginalPerNullifier ==
  npc = "done" =>
    /\ \A nullifier \in PivotNullifiers :
         Cardinality(OriginalRows(nullifier)) = 1
    /\ originals = Cardinality(PivotNullifiers)

\* ------------------------------------ the claims on the zero-score scanner
\* The read of the position resolved with score 0 and an expirationTime
\* greater than the time of the call.
ZeroAndUnexpired(p) ==
  /\ reads[p].answer.kind = "resolved"
  /\ reads[p].answer.score = 0
  /\ reads[p].answer.expirationTime > now

\* The addresses of the first n positions whose read was zero and unexpired,
\* in the order of the input.
RECURSIVE ZeroScoresOf(_)
ZeroScoresOf(n) ==
  IF n = 0 THEN <<>>
  ELSE ZeroScoresOf(n - 1)
       \o (IF ZeroAndUnexpired(n) THEN <<scanAddresses[n]>> ELSE <<>>)

\* C14: whatever order the concurrent reads of a batch settle in, the list
\* holds the input addresses of the finished batches whose read resolved with
\* score 0 and an expirationTime greater than the time of the call, in the
\* order of the input; an address whose read rejects is left out, and on
\* return every input address has been read once and the list is this for
\* the whole input.
C14_ZeroScoresInInputOrder ==
  /\ zeroScoreAddresses = ZeroScoresOf(processed)
  /\ spc = "done" =>
       /\ processed = Len(scanAddresses)
       /\ Len(reads) = Len(scanAddresses)
       /\ \A p \in 1..Len(reads) :
            /\ reads[p].address = scanAddresses[p]
            /\ reads[p].answer.kind \in {"resolved", "rejected"}

\* C14 witness: the function has returned from a call with more than one
\* batch; in the first batch the first read rejected and the second address
\* was found, and in the last batch the second read settled before the first
\* and both addresses were found.
C14_Witness ==
  /\ spc = "done"
  /\ Len(scanAddresses) = MaxScanAddrs
  /\ reads[1].answer.kind = "rejected"
  /\ ZeroAndUnexpired(2)
  /\ Len(completion) = 2
  /\ completion[1] = 2
  /\ ZeroAndUnexpired(ScanBatchSize + 1)
  /\ ZeroAndUnexpired(ScanBatchSize + 2)
  /\ zeroScoreAddresses[1] = scanAddresses[2]
  /\ zeroScoreAddresses[Len(zeroScoreAddresses) - 1]
       = scanAddresses[ScanBatchSize + 1]
  /\ zeroScoreAddresses[Len(zeroScoreAddresses)]
       = scanAddresses[ScanBatchSize + 2]

=============================================================================
